---- MODULE Spec2Model ----
(***************************************************************************)
(* maskit: PII masking of PDF documents.                                   *)
(*                                                                         *)
(*   src/src/types.py            LLMProvider                               *)
(*   src/src/llms.py             get_llm                                   *)
(*   src/src/maskit/maskit.py    Masker (extract_pii, highlight_pii,       *)
(*                               redact_pii, mask) and the CLI (__main__)  *)
(*   src/src/streamlit_app/app.py  MaskItApp, the interactive form         *)
(*                                                                         *)
(* Three specifications over the same operations:                          *)
(*   SpecExtract   Masker.extract_pii called with a document and kwargs    *)
(*   SpecAnnotate  Masker.highlight_pii / redact_pii called with a         *)
(*                 document and an entity list                             *)
(*   Spec          the two front ends, the CLI and the interactive form    *)
(*                                                                         *)
(* Text is a sequence of one-character strings.  The PDF engine (pymupdf)  *)
(* and the chat model are not part of the repository: a page is its text   *)
(* and its annotations, the chat model answers any reply of LlmReplies or  *)
(* fails.                                                                  *)
(***************************************************************************)
EXTENDS Integers, Sequences, FiniteSets, TLC

VARIABLES
    fe,            \* the entry point of the run: "extract", "annotate", "cli", "app"
    pc,            \* the position of the run
    frame,         \* the MaskItApp method whose try block is running, or "none"
    args,          \* the keyword arguments / parsed command line / form fields
    disk,          \* the files: the input document and the output path
    doc,           \* the pymupdf document handle of the running operation
    from_page,     \* extract_pii: local from_page
    to_page,       \* extract_pii: local to_page
    page_index,    \* extract_pii: the loop variable's next value
    pii_entities,  \* extract_pii: local pii_entities
    loaded,        \* history: the page_index values handed to doc.load_page
    llm_calls,     \* history: the chat-model calls, each with its text and reply
    searches,      \* history: the number of page.search_for calls
    doc0,          \* history: the document as it was when the annotator was called
    entities,      \* the entity list handed to highlight_pii / redact_pii
    ret,           \* the value the last Masker method returned
    exc,           \* the exception that is propagating or has ended the run
    ui,            \* the interactive form: the error reports shown to the user
    state,         \* the interactive form: st.session_state.session_state
    runs           \* the interactive form: script runs started

vars == <<fe, pc, frame, args, disk, doc, from_page, to_page, page_index, pii_entities,
          loaded, llm_calls, searches, doc0, entities, ret, exc, ui, state, runs>>

(***************************************************************************)
(* Bounds.                                                                 *)
(***************************************************************************)
MaxPages == 5      \* pages of a document handed to extract_pii
MaxDocPages == 2   \* pages of a document handed to highlight_pii / redact_pii
MaxEnts == 2       \* entities of a list handed to highlight_pii / redact_pii
MaxRuns == 2       \* script runs of one session of the interactive form

(***************************************************************************)
(* Python values of the page-number arguments: None, a str or an int.      *)
(***************************************************************************)
PyNone == [t |-> "None", s |-> <<>>, i |-> 0]
PyStr(s) == [t |-> "str", s |-> s, i |-> 0]
PyInt(i) == [t |-> "int", s |-> <<>>, i |-> i]

\* bool(x), as `if kwargs.get(...)` takes it
Truthy(x) ==
    CASE x.t = "None" -> FALSE
      [] x.t = "str" -> Len(x.s) > 0
      [] x.t = "int" -> x.i # 0

Digits == {"0", "1", "2", "3", "4", "5", "6", "7", "8", "9"}

DigitVal(c) ==
    CASE c = "0" -> 0 [] c = "1" -> 1 [] c = "2" -> 2 [] c = "3" -> 3
      [] c = "4" -> 4 [] c = "5" -> 5 [] c = "6" -> 6 [] c = "7" -> 7
      [] c = "8" -> 8 [] c = "9" -> 9

IsDigits(s) == Len(s) > 0 /\ \A k \in 1..Len(s) : s[k] \in Digits

RECURSIVE DigitsVal(_)
DigitsVal(s) ==
    IF s = <<>> THEN 0
    ELSE 10 * DigitsVal(SubSeq(s, 1, Len(s) - 1)) + DigitVal(s[Len(s)])

\* int(x): [ok |-> TRUE, val] or, for a ValueError, [ok |-> FALSE]
IntOf(x) ==
    CASE x.t = "int" -> [ok |-> TRUE, val |-> x.i]
      [] x.t = "str" /\ IsDigits(x.s) -> [ok |-> TRUE, val |-> DigitsVal(x.s)]
      [] x.t = "str" /\ Len(x.s) > 1 /\ x.s[1] = "-" /\ IsDigits(Tail(x.s)) ->
            [ok |-> TRUE, val |-> 0 - DigitsVal(Tail(x.s))]
      [] x.t = "str" /\ Len(x.s) > 1 /\ x.s[1] = "+" /\ IsDigits(Tail(x.s)) ->
            [ok |-> TRUE, val |-> DigitsVal(Tail(x.s))]
      [] OTHER -> [ok |-> FALSE, val |-> 0]

\* the strings a command line or a text input can hold for a page number
ArgStrings ==
    { <<>>, <<"0">>, <<"1">>, <<"2">>, <<"3">>, <<"5">>, <<"0", "2">>,
      <<"-", "1">>, <<"x">>, <<"1", "0">> }

\* what a caller of extract_pii can pass as from_page_no / to_page_no
KwValues ==
    {PyNone} \cup {PyStr(s) : s \in ArgStrings} \cup {PyInt(i) : i \in {0, 1, 4}}

(***************************************************************************)
(* Entities, chat-model replies, documents.                                *)
(***************************************************************************)
PIIEntity(text, type) == [text |-> text, type |-> type]

EntA == PIIEntity(<<"a">>, "name")
EntAB == PIIEntity(<<"a", "b">>, "email")
EntAA == PIIEntity(<<"a", "a">>, "phone")
EntBB == PIIEntity(<<"b", "b">>, "address")

Entities == {EntA, EntAB, EntAA, EntBB}

\* the PIIEntities.entities a structured-output call can come back with
LlmReplies == { <<>>, <<EntA>>, <<EntAB, EntA>> }

PageTexts ==
    { <<>>, <<"a", "a", "a">>, <<"a", "b", "a", "b">>, <<"b", "a", "a", "b">>, <<"b", "b", "a">> }

\* a page of a freshly opened document: its text, no annotation
Page(text) == [text |-> text, annots |-> <<>>]

RECURSIVE SeqsUpTo(_, _)
\* the sequences over S of length 0..n
SeqsUpTo(S, n) ==
    IF n = 0 THEN {<<>>}
    ELSE LET shorter == SeqsUpTo(S, n - 1)
         IN  shorter \cup {Append(q, x) : q \in {r \in shorter : Len(r) = n - 1}, x \in S}

\* the documents handed to the annotators: 1..MaxDocPages pages
Docs == {d \in SeqsUpTo({Page(t) : t \in PageTexts}, MaxDocPages) : Len(d) >= 1}

\* the document of n pages handed to extract_pii: its page k reads TextAt(k)
TextAt(k) ==
    CASE k % 3 = 1 -> <<"a", "b", "a", "b">>
      [] k % 3 = 2 -> <<"a", "a", "a">>
      [] OTHER -> <<>>
SampleDoc(n) == [k \in 1..n |-> Page(TextAt(k))]

NoDoc == [open |-> FALSE, pages |-> <<>>]
Opened(pages) == [open |-> TRUE, pages |-> pages]
page_count(d) == Len(d.pages)

NoExc == [type |-> "none", origin |-> "none"]
Exc(type, origin) == [type |-> type, origin |-> origin]

RetNone == [kind |-> "None", entities |-> <<>>, pages |-> <<>>]
RetEntities(es) == [kind |-> "entities", entities |-> es, pages |-> <<>>]

(***************************************************************************)
(* Masker.extract_pii                                                      *)
(***************************************************************************)
\* from_page: int(from_page_no) - 1 if from_page_no else 0
FromPageMutant(a) ==
    IF Truthy(a) THEN [ok |-> IntOf(a).ok, val |-> IntOf(a).val] ELSE [ok |-> TRUE, val |-> 0]
FromPage(a) ==
    IF Truthy(a) THEN [ok |-> IntOf(a).ok, val |-> IntOf(a).val - 1] ELSE [ok |-> TRUE, val |-> 0]

\* to_page: int(to_page_no) if to_page_no else doc.page_count
ToPageMutant(a, d) ==
    IF Truthy(a) THEN IntOf(a) ELSE [ok |-> TRUE, val |-> page_count(d) - 1]
ToPage(a, d) ==
    IF Truthy(a) THEN IntOf(a) ELSE [ok |-> TRUE, val |-> page_count(d)]

\* doc.load_page(page_index): pymupdf raises ValueError("page not in document")
\* for an index >= page_count and counts a negative index from the end
RECURSIVE WrapIndex(_, _)
WrapIndex(k, n) == IF k < 0 THEN WrapIndex(k + n, n) ELSE k
LoadPage(d, k) ==
    IF k >= page_count(d) THEN [ok |-> FALSE, pno |-> 0]
    ELSE [ok |-> TRUE, pno |-> WrapIndex(k, page_count(d))]

\* pii_entities.extend(page_pii.entities)
ExtendMutant(es, more) == es \o SelectSeq(more, LAMBDA e : \A k \in 1..Len(es) : es[k] # e)
Extend(es, more) == es \o more

\* where extract_pii returns to
AfterExtract == IF fe = "cli" THEN "mask_annotate" ELSE IF fe = "app" THEN "app_extracted" ELSE "returned"

\* the frame of every action of extract_pii
ExtractFrame == UNCHANGED <<fe, frame, args, disk, doc, searches, doc0, ui, state, runs>>

\* lines 38-40
ExtractBegin ==
    /\ pc = "extract_pii"
    /\ LET f == FromPage(args.from_page_no)
           t == ToPage(args.to_page_no, doc)
       IN  IF f.ok /\ t.ok
           THEN /\ from_page' = f.val
                /\ to_page' = t.val
                /\ page_index' = f.val
                /\ pc' = "extract_loop"
                /\ exc' = exc
           ELSE /\ exc' = Exc("ValueError", "extract_pii")
                /\ pc' = "raising"
                /\ UNCHANGED <<from_page, to_page, page_index>>
    /\ pii_entities' = <<>>
    /\ UNCHANGED <<loaded, llm_calls, ret, entities>>
    /\ ExtractFrame

\* lines 42-46, one iteration of the loop
ExtractPage ==
    /\ pc = "extract_loop"
    /\ page_index < to_page
    /\ loaded' = Append(loaded, page_index)
    /\ LET p == LoadPage(doc, page_index)
       IN  IF ~p.ok
           THEN /\ exc' = Exc("ValueError", "extract_pii")
                /\ pc' = "raising"
                /\ UNCHANGED <<llm_calls, pii_entities, page_index>>
           ELSE LET page_text == doc.pages[p.pno + 1].text
                IN  \/ \E reply \in LlmReplies :
                          /\ llm_calls' = Append(llm_calls, [text |-> page_text, reply |-> reply])
                          /\ pii_entities' = Extend(pii_entities, reply)
                          /\ page_index' = page_index + 1
                          /\ UNCHANGED <<pc, exc>>
                    \/ /\ llm_calls' = Append(llm_calls, [text |-> page_text, reply |-> <<>>])
                       /\ exc' = Exc("LLMError", "extract_pii")
                       /\ pc' = "raising"
                       /\ UNCHANGED <<pii_entities, page_index>>
    /\ UNCHANGED <<from_page, to_page, ret, entities>>
    /\ ExtractFrame

\* line 48
ExtractReturn ==
    /\ pc = "extract_loop"
    /\ page_index >= to_page
    /\ ret' = RetEntities(pii_entities)
    /\ pc' = AfterExtract
    /\ entities' = entities
    /\ UNCHANGED <<from_page, to_page, page_index, pii_entities, loaded, llm_calls, exc>>
    /\ ExtractFrame

\* app.py lines 112, 124, 135: `except Exception` around the body of each MaskItApp
\* method; maskit.py has no handler at all
CatchesMutant(fr, e) == fr # "none" /\ e.type = "ValueError"
Catches(fr, e) == fr # "none"

\* an exception no handler of the repository catches ends the run (the interpreter
\* prints the traceback and exits)
Uncaught ==
    /\ pc = "raising"
    /\ ~Catches(frame, exc)
    /\ pc' = "uncaught"
    /\ UNCHANGED <<fe, frame, args, disk, doc, from_page, to_page, page_index, pii_entities,
                   loaded, llm_calls, searches, doc0, entities, ret, exc, ui, state, runs>>

(***************************************************************************)
(* Masker.highlight_pii, Masker.redact_pii                                 *)
(***************************************************************************)
\* what page.get_text / page.search_for see where apply_redactions removed a character
Gap == " "

RECURSIVE SearchFrom(_, _, _)
\* page.search_for(needle): the hits, left to right, each after the end of the one before
SearchFrom(text, needle, k) ==
    IF needle = <<>> \/ k + Len(needle) - 1 > Len(text) THEN <<>>
    ELSE IF SubSeq(text, k, k + Len(needle) - 1) = needle
         THEN <<[lo |-> k, hi |-> k + Len(needle) - 1]>> \o SearchFrom(text, needle, k + Len(needle))
         ELSE SearchFrom(text, needle, k + 1)
search_for(page, needle) == SearchFrom(page.text, needle, 1)

\* bool(entities), as `if entities:` takes it
HasEntities(es) == es.kind = "entities" /\ Len(es.entities) > 0

\* page.add_highlight_annot(inst), highlight.set_info(content=f"PII Type: {entity.type}")
HighlightAnnot(inst, e) ==
    [kind |-> "highlight", lo |-> inst.lo, hi |-> inst.hi, content |-> <<"PII Type: ", e.type>>]
\* page.add_redact_annot(inst, fill=(0, 0, 0))
RedactAnnot(inst, e) ==
    [kind |-> "redact", lo |-> inst.lo, hi |-> inst.hi, content |-> <<"fill", "black">>]

\* the annotations of one entity's hits on a page: the loop over text_instances
AnnotsOf(page, e, kind) ==
    LET hits == search_for(page, e.text)
    IN  [k \in 1..Len(hits) |->
            IF kind = "highlight" THEN HighlightAnnot(hits[k], e) ELSE RedactAnnot(hits[k], e)]

RECURSIVE AnnotateFrom(_, _, _, _)
\* the loop over the entities, from the k-th: each searched on the page, each hit annotated
AnnotateFrom(page, es, k, kind) ==
    IF k > Len(es) THEN page
    ELSE AnnotateFrom([page EXCEPT !.annots = @ \o AnnotsOf(page, es[k], kind)], es, k + 1, kind)

\* page.apply_redactions(): the text under a redaction is removed, the redactions are gone
apply_redactions(page) ==
    LET marked(k) == \E j \in 1..Len(page.annots) :
                        /\ page.annots[j].kind = "redact"
                        /\ page.annots[j].lo <= k /\ k <= page.annots[j].hi
    IN  [text |-> [k \in 1..Len(page.text) |-> IF marked(k) THEN Gap ELSE page.text[k]],
         annots |-> SelectSeq(page.annots, LAMBDA a : a.kind # "redact")]

\* lines 53-57, one page of highlight_pii
HighlightPageMutant(page, es) == apply_redactions(AnnotateFrom(page, es, 1, "redact"))
HighlightPage(page, es) == AnnotateFrom(page, es, 1, "highlight")

\* lines 63-67, one page of redact_pii
RedactPageMutant(page, es) ==
    apply_redactions(AnnotateFrom(page, SubSeq(es, 1, Len(es) - 1), 1, "redact"))
RedactPage(page, es) == apply_redactions(AnnotateFrom(page, es, 1, "redact"))

\* lines 51-52 and 61-62: nothing is done for an empty list or None
HighlightDoc(d, es) ==
    IF HasEntities(es)
    THEN [d EXCEPT !.pages = [p \in 1..Len(d.pages) |-> HighlightPage(d.pages[p], es.entities)]]
    ELSE d

RedactDoc(d, es) ==
    IF HasEntities(es)
    THEN [d EXCEPT !.pages = [p \in 1..Len(d.pages) |-> RedactPage(d.pages[p], es.entities)]]
    ELSE d

\* the page.search_for calls of one annotator call
SearchCount(d, es) == IF HasEntities(es) THEN page_count(d) * Len(es.entities) ELSE 0

\* doc.convert_to_pdf(): the bytes of the document as it stands, all its pages
convert_to_pdfMutant(d) == [kind |-> "bytes", entities |-> <<>>, pages |-> Tail(d.pages)]
convert_to_pdf(d) == [kind |-> "bytes", entities |-> <<>>, pages |-> d.pages]
\* pymupdf.open(stream=..., filetype="pdf")
OpenBytes(b) == Opened(b.pages)

\* where highlight_pii / redact_pii return to
AfterAnnotate(op) ==
    IF fe = "cli" THEN "mask_return"
    ELSE IF fe = "app" THEN (IF op = "highlight_pii" THEN "app_highlighted" ELSE "app_redacted")
    ELSE (IF op = "highlight_pii" THEN "highlighted" ELSE "redacted")

AnnotateFrame ==
    UNCHANGED <<fe, frame, args, disk, from_page, to_page, page_index, pii_entities,
                loaded, llm_calls, entities, ui, state, runs>>

\* the PDF engine failing inside an annotator (search, annotation, serialisation)
AnnotateFails(op) ==
    /\ exc' = Exc("PdfError", op)
    /\ pc' = "raising"
    /\ UNCHANGED <<doc, doc0, searches, ret>>

\* lines 50-58
Highlight ==
    /\ pc = "highlight_pii"
    /\ \/ /\ doc0' = doc
          /\ doc' = HighlightDoc(doc, entities)
          /\ searches' = searches + SearchCount(doc, entities)
          /\ ret' = convert_to_pdf(doc')
          /\ pc' = AfterAnnotate("highlight_pii")
          /\ exc' = exc
       \/ AnnotateFails("highlight_pii")
    /\ AnnotateFrame

\* lines 60-68
Redact ==
    /\ pc = "redact_pii"
    /\ \/ /\ doc0' = doc
          /\ doc' = RedactDoc(doc, entities)
          /\ searches' = searches + SearchCount(doc, entities)
          /\ ret' = convert_to_pdf(doc')
          /\ pc' = AfterAnnotate("redact_pii")
          /\ exc' = exc
       \/ AnnotateFails("redact_pii")
    /\ AnnotateFrame

NoArgs ==
    [from_page_no |-> PyNone, to_page_no |-> PyNone, llm_provider |-> "ollama",
     input |-> "none", highlight_only |-> FALSE]

NoState == [entities |-> RetNone, input_pdf |-> RetNone]
NoDisk == [input |-> RetNone, output |-> RetNone]

InitCommon ==
    /\ frame = "none"
    /\ from_page = 0 /\ to_page = 0 /\ page_index = 0
    /\ pii_entities = <<>>
    /\ loaded = <<>> /\ llm_calls = <<>> /\ searches = 0
    /\ ret = RetNone /\ exc = NoExc /\ ui = <<>>
    /\ state = NoState /\ runs = 0
    /\ disk = NoDisk

InitExtract ==
    /\ fe = "extract"
    /\ pc = "extract_pii"
    /\ \E n \in 1..MaxPages : doc = Opened(SampleDoc(n))
    /\ \E f \in KwValues, t \in KwValues :
          args = [NoArgs EXCEPT !.from_page_no = f, !.to_page_no = t]
    /\ doc0 = NoDoc
    /\ entities = RetNone
    /\ InitCommon

NextExtract == ExtractBegin \/ ExtractPage \/ ExtractReturn \/ Uncaught

SpecExtract == InitExtract /\ [][NextExtract]_vars

(***************************************************************************)
(* Provider selection: types.py, llms.py, Masker.__init__                  *)
(***************************************************************************)
\* types.py lines 3-5: LLMProvider(name) raises ValueError for any other name
LLMProviderOKMutant(name) == TRUE
LLMProviderOK(name) == name \in {"ollama", "openai"}

\* llms.py lines 23-29
get_llm_ok(provider) == provider = "ollama" \/ provider = "openai"

FrontFrame ==
    UNCHANGED <<fe, from_page, to_page, page_index, pii_entities, loaded, llm_calls,
                searches, doc0>>

\* maskit.py line 106, first half: LLMProvider(args["llm_provider"])
CliProvider ==
    /\ pc = "cli_main"
    /\ IF LLMProviderOK(args.llm_provider)
       THEN pc' = "masker_init" /\ exc' = exc
       ELSE pc' = "raising" /\ exc' = Exc("ValueError", "LLMProvider")
    /\ UNCHANGED <<frame, args, disk, doc, entities, ret, ui, state, runs>>
    /\ FrontFrame

\* maskit.py lines 23-24: Masker.__init__, self.llm = get_llm(llm_provider)
MaskerInit ==
    /\ pc = "masker_init"
    /\ IF get_llm_ok(args.llm_provider)
       THEN pc' = (IF fe = "cli" THEN "mask" ELSE "app_sidebar") /\ exc' = exc
       ELSE pc' = "raising" /\ exc' = Exc("ValueError", "get_llm")
    /\ UNCHANGED <<frame, args, disk, doc, entities, ret, ui, state, runs>>
    /\ FrontFrame

(***************************************************************************)
(* Masker.mask and the CLI                                                 *)
(***************************************************************************)
Corrupt == [kind |-> "corrupt", entities |-> <<>>, pages |-> <<>>]

\* maskit.py lines 71-77: the document is opened.  --input_pdf arrives as a str,
\* which has no read(); --input_path names the file
MaskOpen ==
    /\ pc = "mask"
    /\ IF args.input = "pdf"
       THEN pc' = "raising" /\ exc' = Exc("AttributeError", "mask") /\ doc' = doc
       ELSE IF disk.input.kind # "bytes"
            THEN pc' = "raising" /\ exc' = Exc("FileDataError", "mask") /\ doc' = doc
            ELSE pc' = "extract_pii" /\ exc' = exc /\ doc' = OpenBytes(disk.input)
    /\ UNCHANGED <<frame, args, disk, entities, ret, ui, state, runs>>
    /\ FrontFrame

\* maskit.py lines 79-86: entities_to_redact, then the annotator highlight_only selects
MaskDispatch ==
    /\ pc = "mask_annotate"
    /\ entities' = ret
    /\ pc' = (IF args.highlight_only THEN "highlight_pii" ELSE "redact_pii")
    /\ UNCHANGED <<frame, args, disk, doc, ret, exc, ui, state, runs>>
    /\ FrontFrame

\* what the CLI leaves on disk: maskit.py line 107 drops the bytes mask() returns and
\* nothing is written to args["output_pdf"]
CliOutput(d, bytes) == d

\* maskit.py line 89 (mask returns the bytes) and line 107 (the end of __main__)
CliExit ==
    /\ pc = "mask_return"
    /\ disk' = CliOutput(disk, ret)
    /\ pc' = "done"
    /\ UNCHANGED <<frame, args, doc, entities, ret, exc, ui, state, runs>>
    /\ FrontFrame

(***************************************************************************)
(* MaskItApp: one script run per user interaction, the session state kept  *)
(***************************************************************************)
\* what a text input of the sidebar can hold
FormStrings == { <<>>, <<"1">>, <<"2">>, <<"x">> }

\* a script run starts: app.py lines 182, 25-28
AppRun ==
    /\ pc = "app_idle"
    /\ runs < MaxRuns
    /\ runs' = runs + 1
    /\ pc' = "masker_init"
    /\ UNCHANGED <<frame, args, disk, doc, entities, ret, exc, ui, state>>
    /\ FrontFrame

\* app.py lines 42-69: the sidebar; the button starts MaskItApp.extract_pii
AppSidebar ==
    /\ pc = "app_sidebar"
    /\ \E provider \in {"openai", "ollama"}, f \in FormStrings, t \in FormStrings :
          args' = [args EXCEPT !.llm_provider = provider,
                               !.from_page_no = PyStr(f), !.to_page_no = PyStr(t)]
    /\ pc' \in {"app_extract", "app_main"}
    /\ UNCHANGED <<frame, disk, doc, entities, ret, exc, ui, state, runs>>
    /\ FrontFrame

\* input_pdf.seek(0); pymupdf.open(stream=input_pdf.read(), filetype="pdf"), inside
\* the try of a MaskItApp method: app.py lines 105-106, 120-121, 131-132
AppOpen(method) ==
    /\ frame' = method
    /\ IF state.input_pdf.kind = "None"
       THEN pc' = "raising" /\ exc' = Exc("AttributeError", method) /\ doc' = doc
       ELSE IF state.input_pdf.kind # "bytes"
            THEN pc' = "raising" /\ exc' = Exc("FileDataError", method) /\ doc' = doc
            ELSE pc' = method /\ exc' = exc /\ doc' = OpenBytes(state.input_pdf)

\* app.py lines 104-109
AppExtractOpen ==
    /\ pc = "app_extract"
    /\ AppOpen("extract_pii")
    /\ UNCHANGED <<args, disk, entities, ret, ui, state, runs>>
    /\ FrontFrame

\* app.py line 111 and line 69: self.state.entities = the list returned
AppExtracted ==
    /\ pc = "app_extracted"
    /\ state' = [state EXCEPT !.entities = ret]
    /\ frame' = "none"
    /\ pc' = "app_main"
    /\ UNCHANGED <<args, disk, doc, entities, ret, exc, ui, runs>>
    /\ FrontFrame

\* st.error(f"... {str(e)}") and st.code(traceback.format_exc())
Report(fr, e) == [where |-> fr, message |-> e.type, traceback |-> e.origin]

\* the except clauses, app.py lines 112-115, 124-126, 135-137: the error and its
\* traceback are shown and the method returns None
AppExcept ==
    /\ pc = "raising"
    /\ Catches(frame, exc)
    /\ ui' = Append(ui, Report(frame, exc))
    /\ ret' = RetNone
    /\ exc' = NoExc
    /\ pc' = (CASE frame = "extract_pii" -> "app_extracted"
                [] frame = "highlight_pii" -> "app_highlighted"
                [] frame = "redact_pii" -> "app_redacted")
    /\ UNCHANGED <<frame, args, disk, doc, entities, state, runs>>
    /\ FrontFrame

\* app.py lines 80-86: the uploader, and the preview of the upload
AppMain ==
    /\ pc = "app_main"
    /\ \/ /\ state' = [state EXCEPT !.input_pdf = disk.input]
          /\ pc' = "app_highlight"
       \/ /\ state' = [state EXCEPT !.input_pdf = RetNone]
          /\ pc' = "app_pii"
    /\ UNCHANGED <<frame, args, disk, doc, entities, ret, exc, ui, runs>>
    /\ FrontFrame

\* app.py lines 119-122
AppHighlightOpen ==
    /\ pc = "app_highlight"
    /\ AppOpen("highlight_pii")
    /\ entities' = state.entities
    /\ UNCHANGED <<args, disk, ret, ui, state, runs>>
    /\ FrontFrame

\* self._render_pdf(pdf), app.py lines 71-75: pdf.getvalue() of None is an AttributeError
RenderPdf(next) ==
    IF ret.kind = "None"
    THEN pc' = "raising" /\ exc' = Exc("AttributeError", "_render_pdf")
    ELSE pc' = next /\ exc' = exc

\* app.py lines 123 and 90-91
AppHighlighted ==
    /\ pc = "app_highlighted"
    /\ frame' = "none"
    /\ RenderPdf("app_redact")
    /\ UNCHANGED <<args, disk, doc, entities, ret, ui, state, runs>>
    /\ FrontFrame

\* app.py lines 130-133
AppRedactOpen ==
    /\ pc = "app_redact"
    /\ AppOpen("redact_pii")
    /\ entities' = state.entities
    /\ UNCHANGED <<args, disk, ret, ui, state, runs>>
    /\ FrontFrame

\* app.py lines 134 and 95-96
AppRedacted ==
    /\ pc = "app_redacted"
    /\ frame' = "none"
    /\ RenderPdf("app_pii")
    /\ UNCHANGED <<args, disk, doc, entities, ret, ui, state, runs>>
    /\ FrontFrame

\* app.py lines 139-149: the entities are listed and the script run ends
AppPii ==
    /\ pc = "app_pii"
    /\ pc' = "app_idle"
    /\ UNCHANGED <<frame, args, disk, doc, entities, ret, exc, ui, state, runs>>
    /\ FrontFrame

(***************************************************************************)
(* The front ends                                                          *)
(***************************************************************************)
\* the files a user has: a PDF of 1..MaxDocPages pages, or something that is no PDF
Files == {convert_to_pdf(Opened(SampleDoc(n))) : n \in 1..MaxDocPages} \cup {Corrupt}

\* a page-number option of the command line: absent, or the string given
CliValues == {PyNone} \cup {PyStr(s) : s \in FormStrings}

InitCli ==
    /\ fe = "cli"
    /\ pc = "cli_main"
    /\ \E provider \in {"ollama", "openai", "azure"}, input \in {"path", "pdf"},
          f \in CliValues, t \in CliValues, h \in BOOLEAN :
          args = [from_page_no |-> f, to_page_no |-> t, llm_provider |-> provider,
                  input |-> input, highlight_only |-> h]
    /\ state = NoState

InitApp ==
    /\ fe = "app"
    /\ pc = "app_idle"
    /\ args = NoArgs
    /\ state = NoState

Init ==
    /\ InitCli \/ InitApp
    /\ \E file \in Files : disk = [input |-> file, output |-> RetNone]
    /\ doc = NoDoc /\ doc0 = NoDoc
    /\ entities = RetNone
    /\ frame = "none"
    /\ from_page = 0 /\ to_page = 0 /\ page_index = 0
    /\ pii_entities = <<>>
    /\ loaded = <<>> /\ llm_calls = <<>> /\ searches = 0
    /\ ret = RetNone /\ exc = NoExc /\ ui = <<>>
    /\ runs = 0

Next ==
    \/ CliProvider \/ MaskerInit \/ MaskOpen \/ MaskDispatch \/ CliExit
    \/ ExtractBegin \/ ExtractPage \/ ExtractReturn
    \/ Highlight \/ Redact
    \/ AppRun \/ AppSidebar \/ AppExtractOpen \/ AppExtracted \/ AppExcept
    \/ AppMain \/ AppHighlightOpen \/ AppHighlighted \/ AppRedactOpen \/ AppRedacted
    \/ AppPii
    \/ Uncaught

Spec == Init /\ [][Next]_vars

\* the lists handed to an annotator: None, or up to MaxEnts entities
EntityLists == {RetNone} \cup {RetEntities(es) : es \in SeqsUpTo(Entities, MaxEnts)}

InitAnnotate ==
    /\ fe = "annotate"
    /\ pc \in {"highlight_pii", "redact_pii"}
    /\ \E d \in Docs : doc = Opened(d)
    /\ entities \in EntityLists
    /\ args = NoArgs
    /\ doc0 = NoDoc
    /\ InitCommon

NextAnnotate == Highlight \/ Redact \/ Uncaught

SpecAnnotate == InitAnnotate /\ [][NextAnnotate]_vars

(***************************************************************************)
(* Properties                                                              *)
(***************************************************************************)
\* the n consecutive indices from lo
IndexRun(lo, n) == [k \in 1..n |-> lo + k - 1]

\* the texts handed to the chat model are those of the pages loaded, in that order
CallsFollowLoads ==
    /\ Len(llm_calls) = Len(loaded)
    /\ \A k \in 1..Len(llm_calls) :
          llm_calls[k].text = doc.pages[LoadPage(doc, loaded[k]).pno + 1].text

\* C1: extract_pii called with no from_page_no and no to_page_no loads the indices
\* 0..page_count-1, each once and in order, and issues one chat-model call per page:
\* while it runs, what it has loaded is a prefix of that run; when it returns, all of it.
C1_DefaultRangeAllPages ==
    (args.from_page_no = PyNone /\ args.to_page_no = PyNone) =>
        /\ Len(loaded) <= page_count(doc)
        /\ loaded = IndexRun(0, Len(loaded))
        /\ Len(llm_calls) <= Len(loaded)
        /\ pc = "returned" =>
              /\ loaded = IndexRun(0, page_count(doc))
              /\ Len(llm_calls) = page_count(doc)
              /\ CallsFollowLoads

C1_Witness ==
    /\ pc = "returned"
    /\ args.from_page_no = PyNone /\ args.to_page_no = PyNone
    /\ page_count(doc) = 3
    /\ Len(llm_calls) = 3

\* C2: for 1-based page numbers f and t with 1 <= f <= t <= page_count, given as
\* integers or as numeric strings, extract_pii returns having loaded exactly the
\* indices f-1 .. t-1, each once, and having called the chat model on those pages only.
C2_PageRange ==
    LET f == IntOf(args.from_page_no)
        t == IntOf(args.to_page_no)
    IN  (/\ pc = "returned"
         /\ f.ok /\ t.ok
         /\ 1 <= f.val /\ f.val <= t.val /\ t.val <= page_count(doc)) =>
            /\ loaded = IndexRun(f.val - 1, t.val - f.val + 1)
            /\ CallsFollowLoads

C2_Witness ==
    /\ pc = "returned"
    /\ args.from_page_no = PyStr(<<"2">>) /\ args.to_page_no = PyStr(<<"3">>)
    /\ page_count(doc) = 5
    /\ loaded = <<1, 2>>

\* the page.search_for hits of every entity of a list on a page
Hits(page, es) ==
    {h \in [lo : 1..Len(page.text), hi : 1..Len(page.text)] :
        \E k \in 1..Len(es) : \E j \in 1..Len(search_for(page, es[k].text)) :
            search_for(page, es[k].text)[j] = h}

Covered(page, es, k) == \E h \in Hits(page, es) : h.lo <= k /\ k <= h.hi

\* C3: highlight_pii and redact_pii called with an empty entity list (or None) issue
\* no search and add no annotation or redaction: every page of the document is as it
\* was, and the bytes returned hold exactly those pages.
C3_EmptyListUnchanged ==
    (pc \in {"highlighted", "redacted"} /\ ~HasEntities(entities)) =>
        /\ searches = 0
        /\ doc = doc0
        /\ ret.kind = "bytes"
        /\ ret.pages = doc0.pages
        /\ \A p \in 1..Len(ret.pages) : ret.pages[p].annots = <<>>

C3_Witness ==
    /\ pc = "redacted"
    /\ entities = RetEntities(<<>>)
    /\ page_count(doc0) = 2
    /\ doc0.pages[1].text = <<"a", "b", "a", "b">>
    /\ ret.pages = doc0.pages

\* C4: after redact_pii returns, no page of the output has a match of any entity of
\* the list; on every page exactly the characters under a match of some entity of the
\* list (searched on the page as it was) are removed, and no redaction is left pending.
C4_RedactionRoundTrip ==
    (pc = "redacted" /\ HasEntities(entities)) =>
        /\ Len(ret.pages) = Len(doc0.pages)
        /\ \A p \in 1..Len(ret.pages) :
              /\ \A k \in 1..Len(entities.entities) :
                    search_for(OpenBytes(ret).pages[p], entities.entities[k].text) = <<>>
              /\ Len(ret.pages[p].text) = Len(doc0.pages[p].text)
              /\ \A k \in 1..Len(ret.pages[p].text) :
                    ret.pages[p].text[k] =
                        IF Covered(doc0.pages[p], entities.entities, k)
                        THEN Gap ELSE doc0.pages[p].text[k]
              /\ \A j \in 1..Len(ret.pages[p].annots) : ret.pages[p].annots[j].kind # "redact"

C4_Witness ==
    /\ pc = "redacted"
    /\ entities = RetEntities(<<EntAA, EntAB>>)
    /\ page_count(doc0) = 2
    /\ doc0.pages[1].text = <<"a", "a", "a">>
    /\ doc0.pages[2].text = <<"b", "a", "a", "b">>
    /\ ret.pages[1].text = <<Gap, Gap, "a">>
    /\ ret.pages[2].text = <<"b", Gap, Gap, Gap>>

\* C5: after highlight_pii returns, every page has the text it had, so a search for
\* an entity's text finds every match it found before; the annotations added are
\* highlights, one per match of an entity of the list, each with a note of that
\* entity's type.
C5_HighlightKeepsText ==
    (pc = "highlighted" /\ HasEntities(entities)) =>
        /\ Len(ret.pages) = Len(doc0.pages)
        /\ \A p \in 1..Len(ret.pages) :
              /\ ret.pages[p].text = doc0.pages[p].text
              /\ \A k \in 1..Len(entities.entities) :
                    search_for(OpenBytes(ret).pages[p], entities.entities[k].text) =
                        search_for(doc0.pages[p], entities.entities[k].text)
              /\ \A j \in 1..Len(ret.pages[p].annots) :
                    LET a == ret.pages[p].annots[j]
                    IN  /\ a.kind = "highlight"
                        /\ \E k \in 1..Len(entities.entities) :
                              /\ a.content = <<"PII Type: ", entities.entities[k].type>>
                              /\ \E i \in 1..Len(search_for(doc0.pages[p], entities.entities[k].text)) :
                                    search_for(doc0.pages[p], entities.entities[k].text)[i] =
                                        [lo |-> a.lo, hi |-> a.hi]
              /\ \A h \in Hits(doc0.pages[p], entities.entities) :
                    \E j \in 1..Len(ret.pages[p].annots) :
                        ret.pages[p].annots[j].lo = h.lo /\ ret.pages[p].annots[j].hi = h.hi

C5_Witness ==
    /\ pc = "highlighted"
    /\ entities = RetEntities(<<EntAB, EntA>>)
    /\ page_count(doc0) = 1
    /\ doc0.pages[1].text = <<"a", "b", "a", "b">>
    /\ Len(ret.pages[1].annots) = 4
    /\ ret.pages[1].annots[1] = [kind |-> "highlight", lo |-> 1, hi |-> 2,
                                  content |-> <<"PII Type: ", "email">>]

\* C6: a command line whose --llm_provider is none of the supported names ends in the
\* ValueError LLMProvider(...) raises; no document is ever opened and no chat-model
\* call is ever issued in that run.
C6_UnsupportedProviderFailsFirst ==
    (fe = "cli" /\ args.llm_provider \notin {"ollama", "openai"}) =>
        /\ pc \in {"cli_main", "raising", "uncaught"}
        /\ pc # "cli_main" => exc = Exc("ValueError", "LLMProvider")
        /\ ~doc.open
        /\ loaded = <<>>
        /\ llm_calls = <<>>
        /\ searches = 0

C6_Witness ==
    /\ fe = "cli"
    /\ args.llm_provider = "azure"
    /\ pc = "uncaught"
    /\ exc = Exc("ValueError", "LLMProvider")
    /\ disk.input.kind = "bytes"

\* C7: when the CLI run ends successfully, the bytes mask() returned are the content
\* of the file at --output_pdf.
C7_OutputSavedToDisk ==
    (fe = "cli" /\ pc = "done") => (ret.kind = "bytes" /\ disk.output = ret)

\* a failure raised during extraction or annotation
DuringMasking(e) == e.origin \in {"extract_pii", "highlight_pii", "redact_pii"}

\* C8, as claimed: in neither front end does a failure raised during extraction or
\* annotation end the run uncaught.
C8_NoFailureUncaught ==
    (fe \in {"cli", "app"} /\ pc = "uncaught") => ~DuringMasking(exc)

\* C8, amended: in the interactive form a failure raised inside MaskItApp.extract_pii,
\* highlight_pii or redact_pii is raised inside the method's try block, its except
\* clause shows the message and the traceback and the method returns None; no such
\* failure ends the script run uncaught.
C8_AppFailuresReported ==
    /\ [](fe = "app" =>
            /\ (pc = "raising" /\ DuringMasking(exc)) => frame = exc.origin
            /\ pc = "uncaught" => ~DuringMasking(exc))
    /\ [][(fe = "app" /\ pc = "raising" /\ DuringMasking(exc)) =>
            /\ ui' = Append(ui, Report(frame, exc))
            /\ ret' = RetNone
            /\ pc' # "uncaught"]_vars

C8_Witness ==
    /\ fe = "app"
    /\ Len(ui) = 2
    /\ ui[1] = Report("extract_pii", Exc("LLMError", "extract_pii"))
    /\ ui[2] = Report("redact_pii", Exc("PdfError", "redact_pii"))

RECURSIVE Flatten(_)
\* the replies of the chat-model calls, one after the other
Flatten(calls) == IF calls = <<>> THEN <<>> ELSE calls[1].reply \o Flatten(Tail(calls))

RECURSIVE SumLen(_)
SumLen(calls) == IF calls = <<>> THEN 0 ELSE Len(calls[1].reply) + SumLen(Tail(calls))

C10_LoadedIndicesInRange ==
    LET f == FromPage(args.from_page_no)
        t == ToPage(args.to_page_no, doc)
    IN  /\ \A k \in 1..Len(loaded) :
              /\ 0 <= loaded[k] /\ loaded[k] <= page_count(doc) - 1
              /\ f.ok => loaded[k] >= f.val
        /\ (f.ok /\ t.ok /\ f.val >= t.val) => (loaded = <<>> /\ llm_calls = <<>>)
====
